---------------------------- MODULE Spec2Model ----------------------------
(***************************************************************************)
(* A model of carelabel-app.py: the composition pipeline                   *)
(* (basic_translate_freeform, parse_components_for_normalization,          *)
(* normalize_and_translate_composition), the greedy word wrapper           *)
(* (wrap_line) and the carelabel page layout (create_carelabel_pdf).       *)
(*                                                                         *)
(* A text is a sequence of characters, each character a one-letter string. *)
(* Every function of the program has one frame variable holding its        *)
(* parameters, its locals and its position (pc); a frame that a            *)
(* specification does not run stays [pc |-> "idle"].                       *)
(***************************************************************************)
EXTENDS Integers, Sequences, FiniteSets, TLC

VARIABLES translate, normalize, wrap, render

vars == <<translate, normalize, wrap, render>>

Idle == [pc |-> "idle"]

(***************************************************************************)
(* Characters: str.lower / str.upper and the classes the regular           *)
(* expressions of the program use.                                         *)
(***************************************************************************)
LowerAlphabet == <<"a", "b", "c", "d", "e", "f", "g", "h", "i", "j", "k", "l", "m", "n", "o", "p", "q", "r", "s", "t", "u", "v", "w", "x", "y", "z", "é", "ã">>

UpperAlphabet == <<"A", "B", "C", "D", "E", "F", "G", "H", "I", "J", "K", "L", "M", "N", "O", "P", "Q", "R", "S", "T", "U", "V", "W", "X", "Y", "Z", "É", "Ã">>

Digits == <<"0", "1", "2", "3", "4", "5", "6", "7", "8", "9">>

IndexOf(c, alphabet) ==
    IF \E i \in 1..Len(alphabet) : alphabet[i] = c
    THEN CHOOSE i \in 1..Len(alphabet) : alphabet[i] = c
    ELSE 0

CharSet(alphabet) == {alphabet[i] : i \in 1..Len(alphabet)}

CaseMap(from, to) == [c \in CharSet(from) |-> to[IndexOf(c, from)]]

LowerOf == CaseMap(UpperAlphabet, LowerAlphabet)

UpperOf == CaseMap(LowerAlphabet, UpperAlphabet)

ToLower(c) == IF c \in DOMAIN LowerOf THEN LowerOf[c] ELSE c

ToUpper(c) == IF c \in DOMAIN UpperOf THEN UpperOf[c] ELSE c

Lower(t) == [i \in 1..Len(t) |-> ToLower(t[i])]

Upper(t) == [i \in 1..Len(t) |-> ToUpper(t[i])]

Letters == CharSet(LowerAlphabet) \cup CharSet(UpperAlphabet)

DigitSet == CharSet(Digits)

IsLetter(c) == c \in Letters

IsDigit(c) == c \in DigitSet

\* \s
IsSpace(c) == c \in {" ", "\n"}

\* \w
IsWordChar(c) == IsLetter(c) \/ IsDigit(c) \/ c = "_"

\* the position after the whitespace run that starts at i
RECURSIVE SkipSpaces(_, _)
SkipSpaces(t, i) ==
    IF i <= Len(t) /\ IsSpace(t[i]) THEN SkipSpaces(t, i + 1) ELSE i

\* \b at the gap before position i
AtWordBoundary(t, i) ==
    LET before == i > 1 /\ i - 1 <= Len(t) /\ IsWordChar(t[i - 1])
        after  == i <= Len(t) /\ IsWordChar(t[i])
    IN  before /= after

(***************************************************************************)
(* The rule table.  A pattern is a sequence of elements: a lower-case      *)
(* character, matched ignoring case (flags=re.IGNORECASE), or one of the   *)
(* four regular-expression elements below.                                 *)
(***************************************************************************)
WsStar == "\\s*"

OptOpen == "\\(?"

OptClose == "\\)?"

WordB == "\\b"

REPLACEMENTS == <<
    [pattern |-> <<"p", "o", "l", "y", "v", "i", "n", "y", "l", " ", "c", "h", "l", "o", "r", "i", "d", "e">> \o <<WsStar, OptOpen, WsStar>> \o <<"p", "v", "c">> \o <<WsStar, OptClose>>,
     repl    |-> <<"P", "O", "L", "I", "C", "L", "O", "R", "E", "T", "O", " ", "D", "E", " ", "V", "I", "N", "I", "L", "A", " ", "(", "P", "V", "C", ")">>],
    [pattern |-> <<WordB>> \o <<"p", "v", "c">> \o <<WordB>>,
     repl    |-> <<"P", "O", "L", "I", "C", "L", "O", "R", "E", "T", "O", " ", "D", "E", " ", "V", "I", "N", "I", "L", "A", " ", "(", "P", "V", "C", ")">>],
    [pattern |-> <<"p", "o", "l", "y", "u", "r", "e", "t", "h", "a", "n", "e">>, repl |-> <<"P", "O", "L", "I", "U", "R", "E", "T", "A", "N", "O", " ", "(", "P", "U", ")">>],
    [pattern |-> <<WordB>> \o <<"p", "u">> \o <<WordB>>, repl |-> <<"P", "O", "L", "I", "U", "R", "E", "T", "A", "N", "O", " ", "(", "P", "U", ")">>],
    [pattern |-> <<"p", "o", "l", "y", "e", "s", "t", "e", "r">>,   repl |-> <<"P", "O", "L", "I", "É", "S", "T", "E", "R">>],
    [pattern |-> <<"p", "o", "l", "y", "a", "m", "i", "d", "e">>,   repl |-> <<"P", "O", "L", "I", "A", "M", "I", "D", "A">>],
    [pattern |-> <<"n", "y", "l", "o", "n">>,       repl |-> <<"P", "O", "L", "I", "A", "M", "I", "D", "A">>],
    [pattern |-> <<"c", "o", "t", "t", "o", "n">>,      repl |-> <<"A", "L", "G", "O", "D", "Ã", "O">>],
    [pattern |-> <<"f", "i", "l", "l", "e", "r">>,      repl |-> <<"E", "N", "C", "H", "I", "M", "E", "N", "T", "O">>],
    [pattern |-> <<"b", "a", "s", "e", " ", "f", "a", "b", "r", "i", "c">>, repl |-> <<"T", "E", "C", "I", "D", "O", " ", "B", "A", "S", "E">>],
    [pattern |-> <<"l", "e", "a", "t", "h", "e", "r">>,     repl |-> <<"C", "O", "U", "R", "O">>],
    [pattern |-> <<"m", "e", "t", "a", "l">>,       repl |-> <<"M", "E", "T", "A", "L">>] >>

(***************************************************************************)
(* The position after the match of pattern[k..] that starts at t[i], or 0  *)
(* when there is none.  Every quantified element is followed by an element *)
(* that cannot match what the quantified one gives up, so the greedy       *)
(* choice is the only one the regular-expression engine can succeed with.  *)
(***************************************************************************)
RECURSIVE MatchFrom(_, _, _, _)
MatchFrom(pattern, k, t, i) ==
    IF k > Len(pattern) THEN i
    ELSE LET e == pattern[k] IN
         CASE e = WsStar   -> MatchFrom(pattern, k + 1, t, SkipSpaces(t, i))
           [] e = OptOpen  -> MatchFrom(pattern, k + 1, t,
                                  IF i <= Len(t) /\ t[i] = "(" THEN i + 1 ELSE i)
           [] e = OptClose -> MatchFrom(pattern, k + 1, t,
                                  IF i <= Len(t) /\ t[i] = ")" THEN i + 1 ELSE i)
           [] e = WordB    -> IF AtWordBoundary(t, i)
                              THEN MatchFrom(pattern, k + 1, t, i) ELSE 0
           [] OTHER        -> IF i <= Len(t) /\ ToLower(t[i]) = e
                              THEN MatchFrom(pattern, k + 1, t, i + 1) ELSE 0

Min(S) == CHOOSE x \in S : \A y \in S : x <= y

Max(S) == CHOOSE x \in S : \A y \in S : x >= y

\* re.sub(pattern, repl, t, flags=re.IGNORECASE): the leftmost match at or after
\* i is replaced, and the scan goes on behind it
RECURSIVE SubFrom(_, _, _, _)
SubFrom(pattern, repl, t, i) ==
    LET starts == {j \in i..Len(t) : MatchFrom(pattern, 1, t, j) > j} IN
    IF starts = {} THEN SubSeq(t, i, Len(t))
    ELSE LET j == Min(starts) IN
         SubSeq(t, i, j - 1) \o repl \o SubFrom(pattern, repl, t, MatchFrom(pattern, 1, t, j))

ReSub(pattern, repl, t) == SubFrom(pattern, repl, t, 1)

\* the loop of basic_translate_freeform over rules k..Len(REPLACEMENTS)
RECURSIVE ApplyRules(_, _)
ApplyRules(t, k) ==
    IF k > Len(REPLACEMENTS) THEN t
    ELSE ApplyRules(ReSub(REPLACEMENTS[k].pattern, REPLACEMENTS[k].repl, t), k + 1)

basic_translate_freeform(text) ==
    IF text = <<>> THEN <<>> ELSE Upper(ApplyRules(text, 1))

(***************************************************************************)
(* Texts joined by single spaces.                                          *)
(***************************************************************************)
RECURSIVE JoinWith(_, _)
JoinWith(parts, sep) ==
    IF parts = <<>> THEN <<>>
    ELSE IF Len(parts) = 1 THEN parts[1]
    ELSE parts[1] \o sep \o JoinWith(Tail(parts), sep)

SeqsUpTo(S, n) == UNION {[1..m -> S] : m \in 0..n}

(***************************************************************************)
(* The Rule Translator run on its own, one rule per step.                  *)
(***************************************************************************)
MaxTerms == 2

\* one text that each rule of the table matches, and texts no rule matches
EnglishTerms == {
    <<"P", "o", "l", "y", "v", "i", "n", "y", "l", " ", "C", "h", "l", "o", "r", "i", "d", "e", " ", "(", "P", "V", "C", ")">>, <<"P", "V", "C">>, <<"P", "o", "l", "y", "u", "r", "e", "t", "h", "a", "n", "e">>, <<"p", "u">>,
    <<"P", "o", "l", "y", "e", "s", "t", "e", "r">>, <<"p", "o", "l", "y", "a", "m", "i", "d", "e">>, <<"N", "y", "l", "o", "n">>, <<"C", "o", "t", "t", "o", "n">>, <<"f", "i", "l", "l", "e", "r">>,
    <<"B", "a", "s", "e", " ", "F", "a", "b", "r", "i", "c">>, <<"L", "e", "a", "t", "h", "e", "r">>, <<"M", "e", "t", "a", "l">> }

UnknownTerms == { <<"S", "i", "l", "k">>, <<"p", "u", "m", "p">> }

\* the vocabulary the rule table writes
PortugueseTerms == {REPLACEMENTS[k].repl : k \in 1..Len(REPLACEMENTS)}

TranslateInputs ==
    {JoinWith(ws, <<" ">>) :
        ws \in SeqsUpTo(EnglishTerms \cup UnknownTerms \cup PortugueseTerms, MaxTerms)}

TranslateInit ==
    /\ translate \in {[pc |-> "start", text |-> t, result |-> <<>>, k |-> 0] :
                        t \in TranslateInputs}
    /\ normalize = Idle
    /\ wrap = Idle
    /\ render = Idle

\* lines 65-66: if not text: return ""
TranslateEmpty ==
    /\ translate.pc = "start"
    /\ translate.text = <<>>
    /\ translate' = [translate EXCEPT !.pc = "done", !.result = <<>>]
    /\ UNCHANGED <<normalize, wrap, render>>

\* line 67: result = text
TranslateBegin ==
    /\ translate.pc = "start"
    /\ translate.text /= <<>>
    /\ translate' = [translate EXCEPT !.pc = "rules", !.result = translate.text, !.k = 1]
    /\ UNCHANGED <<normalize, wrap, render>>

\* lines 68-69: one iteration of the loop over REPLACEMENTS
TranslateRule ==
    /\ translate.pc = "rules"
    /\ translate.k <= Len(REPLACEMENTS)
    /\ translate' = [translate EXCEPT
                        !.result = ReSub(REPLACEMENTS[translate.k].pattern,
                                         REPLACEMENTS[translate.k].repl,
                                         translate.result),
                        !.k = translate.k + 1]
    /\ UNCHANGED <<normalize, wrap, render>>

\* line 70: return result.upper()
TranslateReturn ==
    /\ translate.pc = "rules"
    /\ translate.k > Len(REPLACEMENTS)
    /\ translate' = [translate EXCEPT !.pc = "done", !.result = Upper(translate.result)]
    /\ UNCHANGED <<normalize, wrap, render>>

TranslateNext == TranslateEmpty \/ TranslateBegin \/ TranslateRule \/ TranslateReturn

SpecTranslate == TranslateInit /\ [][TranslateNext]_vars

(***************************************************************************)
(* C3: no double substitution.  A text made of terms of the rule table's   *)
(* English vocabulary is translated term by term, each term exactly once:  *)
(* the result is the replacement of the rule that matches the term, and    *)
(* nothing a replacement wrote is rewritten by a later rule.               *)
(***************************************************************************)
MatchesWhole(pattern, t) == MatchFrom(pattern, 1, t, 1) = Len(t) + 1

TranslatedOnce(term) ==
    IF \E k \in 1..Len(REPLACEMENTS) : MatchesWhole(REPLACEMENTS[k].pattern, term)
    THEN REPLACEMENTS[CHOOSE k \in 1..Len(REPLACEMENTS) :
            /\ MatchesWhole(REPLACEMENTS[k].pattern, term)
            /\ \A j \in 1..(k - 1) : ~MatchesWhole(REPLACEMENTS[j].pattern, term)].repl
    ELSE Upper(term)

C3_NoDoubleSubstitution ==
    translate.pc = "done" =>
        \A ws \in SeqsUpTo(EnglishTerms, MaxTerms) :
            translate.text = JoinWith(ws, <<" ">>) =>
                translate.result =
                    JoinWith([i \in 1..Len(ws) |-> TranslatedOnce(ws[i])], <<" ">>)

(***************************************************************************)
(* C4: the Rule Translator is idempotent on translated text.  A text that  *)
(* is already upper-case Portuguese (made of the replacements the rule     *)
(* table writes) is returned unchanged.                                    *)
(***************************************************************************)
AlreadyTranslated(t) ==
    \E ws \in SeqsUpTo(PortugueseTerms, MaxTerms) : t = JoinWith(ws, <<" ">>)

C4_IdempotentOnTranslated ==
    (translate.pc = "done" /\ AlreadyTranslated(translate.text)) =>
        translate.result = translate.text

(***************************************************************************)
(* parse_components_for_normalization.  A percentage is kept as the        *)
(* decimal fraction n/d the matched text denotes (d a power of ten).       *)
(***************************************************************************)
\* text.replace("\n", " ")
ReplaceNewlines(t) == [i \in 1..Len(t) |-> IF t[i] = "\n" THEN " " ELSE t[i]]

\* re.sub(r"%\s*", "% ", cleaned)
NormalizePercentSpacing(t) == ReSub(<<"%", WsStar>>, <<"%", " ">>, t)

\* the position after the digit run that starts at i (i itself when there is none)
RECURSIVE SkipDigits(_, _)
SkipDigits(t, i) ==
    IF i <= Len(t) /\ IsDigit(t[i]) THEN SkipDigits(t, i + 1) ELSE i

\* \d+(?:\.\d+)? at i: the position after it, or 0
NumberEnd(t, i) ==
    LET j == SkipDigits(t, i) IN
    IF j = i THEN 0
    ELSE IF j + 1 <= Len(t) /\ t[j] = "." /\ IsDigit(t[j + 1])
         THEN SkipDigits(t, j + 1)
         ELSE j

\* \d+(?:\.\d+)?\s*% at i: the position after the number, or 0.  Giving up the
\* fraction or a digit leaves "." or a digit where \s*% must match, so only
\* the longest number can be followed by the percent sign.
PercentNumberEnd(t, i) ==
    LET n == NumberEnd(t, i)
        s == SkipSpaces(t, n)
    IN  IF n > 0 /\ s <= Len(t) /\ t[s] = "%" THEN n ELSE 0

\* [A-Za-zÀ-ÖØ-öø-ÿ ()/\-]
IsDescChar(c) == IsLetter(c) \/ c \in {" ", "(", ")", "/", "-"}

\* (?=(\d+(?:\.\d+)?\s*%|$)) at e
Lookahead(t, e) == e = Len(t) + 1 \/ PercentNumberEnd(t, e) > 0

\* The lazy description run from s: it can only end where the lookahead holds,
\* which is at a digit or at the end, neither a description character; so it
\* ends at the first character outside the class, or fails (0).
DescEnd(t, s) ==
    LET stop == Min({j \in s..Len(t) : ~IsDescChar(t[j])} \cup {Len(t) + 1}) IN
    IF stop >= s + 1 /\ Lookahead(t, stop) THEN stop ELSE 0

\* str.strip()
Strip(t) ==
    LET keep == {i \in 1..Len(t) : ~IsSpace(t[i])} IN
    IF keep = {} THEN <<>> ELSE SubSeq(t, Min(keep), Max(keep))

RECURSIVE DigitsValue(_, _)
DigitsValue(ds, acc) ==
    IF ds = <<>> THEN acc
    ELSE DigitsValue(Tail(ds), 10 * acc + (IndexOf(ds[1], Digits) - 1))

RECURSIVE Pow10(_)
Pow10(k) == IF k = 0 THEN 1 ELSE 10 * Pow10(k - 1)

\* float(m.group(1)), as the exact decimal fraction
ParseNumber(ds) ==
    LET dot == {i \in 1..Len(ds) : ds[i] = "."} IN
    IF dot = {} THEN [n |-> DigitsValue(ds, 0), d |-> 1]
    ELSE LET j == Min(dot) IN
         [n |-> DigitsValue(SubSeq(ds, 1, j - 1) \o SubSeq(ds, j + 1, Len(ds)), 0),
          d |-> Pow10(Len(ds) - j)]

\* One match of the pattern at i: [end, pct, desc], or [end |-> 0].  After the
\* percent sign \s* is greedy and gives back one character at a time until the
\* description can match.
MatchComponent(t, i) ==
    LET n == PercentNumberEnd(t, i) IN
    IF n = 0 THEN [end |-> 0]
    ELSE LET p == SkipSpaces(t, n) + 1
             q == SkipSpaces(t, p)
             ok == {s \in p..q : DescEnd(t, s) > 0}
         IN  IF ok = {} THEN [end |-> 0]
             ELSE LET s == Max(ok)
                      e == DescEnd(t, s)
                  IN  [end  |-> e,
                       pct  |-> ParseNumber(SubSeq(t, i, n - 1)),
                       desc |-> Strip(SubSeq(t, s, e - 1))]

\* pattern.finditer(cleaned): leftmost match at or after i, then on behind it
RECURSIVE FindComponents(_, _)
FindComponents(t, i) ==
    LET starts == {j \in i..Len(t) : MatchComponent(t, j).end > 0} IN
    IF starts = {} THEN <<>>
    ELSE LET m == MatchComponent(t, Min(starts)) IN
         <<[pct |-> m.pct, desc |-> m.desc]>> \o FindComponents(t, m.end)

parse_components_for_normalization(text) ==
    IF text = <<>> THEN <<>>
    ELSE FindComponents(NormalizePercentSpacing(ReplaceNewlines(text)), 1)

(***************************************************************************)
(* The float arithmetic of lines 110-116.  Python's float is IEEE 754      *)
(* binary64: p * 100.0 / total is the exact quotient rounded to 53         *)
(* significant bits, ties to even.  The quotient is kept as its integer    *)
(* part and the bits of its fraction, found by long division, so that no   *)
(* number wider than 32-bit integers is needed.  The       percentages    *)
(* the model draws are integers and halves, for which float(), p * 100.0   *)
(* and the sum are exact, so the division is the only rounding.            *)
(***************************************************************************)
MantissaBits == 53

RECURSIVE BitLength(_)
BitLength(n) == IF n = 0 THEN 0 ELSE 1 + BitLength(n \div 2)

RECURSIVE LeadingZeroBits(_, _)
\* the zero bits that open the binary fraction r/T, 0 < r < T
LeadingZeroBits(r, T) == IF 2 * r >= T THEN 0 ELSE 1 + LeadingZeroBits(2 * r, T)

\* k more bits of the binary fraction r/T: [bits, rem]
RECURSIVE LongDivision(_, _, _, _)
LongDivision(r, T, k, acc) ==
    IF k = 0 THEN [bits |-> acc, rem |-> r]
    ELSE LongDivision(IF 2 * r >= T THEN 2 * r - T ELSE 2 * r, T, k - 1,
                      Append(acc, IF 2 * r >= T THEN 1 ELSE 0))

\* a float in [0, 2^53): int + 0.frac (binary)
FloatQuotient(a, T) ==
    LET int  == a \div T
        r    == a % T
        k    == IF int > 0 THEN MantissaBits - BitLength(int)
                ELSE IF r > 0 THEN LeadingZeroBits(r, T) + MantissaBits ELSE 0
        q    == LongDivision(r, T, k, <<>>)
        odd  == IF k > 0 THEN q.bits[k] = 1 ELSE int % 2 = 1
        up   == 2 * q.rem > T \/ (2 * q.rem = T /\ odd)
        zero == {j \in 1..k : q.bits[j] = 0}
    IN  IF ~up THEN [int |-> int, frac |-> q.bits]
        ELSE IF zero = {} THEN [int |-> int + 1, frac |-> [j \in 1..k |-> 0]]
        ELSE [int  |-> int,
              frac |-> [j \in 1..k |-> IF j < Max(zero) THEN q.bits[j]
                                       ELSE IF j = Max(zero) THEN 1 ELSE 0]]

FracBit(x, j) == IF j <= Len(x) THEN x[j] ELSE 0

\* x < y for two binary fractions
FracLess(x, y) ==
    \E j \in 1..Len(y) :
        /\ FracBit(x, j) < y[j]
        /\ \A m \in 1..(j - 1) : FracBit(x, m) = FracBit(y, m)

FracEqual(x, y) == ~FracLess(x, y) /\ ~FracLess(y, x)

RECURSIVE Sum(_)
Sum(xs) == IF xs = <<>> THEN 0 ELSE xs[1] + Sum(Tail(xs))

(***************************************************************************)
(* normalize_and_translate_composition                                     *)
(***************************************************************************)
Contains(t, sub) ==
    \E i \in 1..(Len(t) - Len(sub) + 1) : SubSeq(t, i, i + Len(sub) - 1) = sub

\* line 103 without .lower(): the comparison is case-sensitive
IsNonPrincipalCaseSensitive(desc) ==
    \/ Contains(desc, <<"f", "i", "l", "l", "e", "r">>)
    \/ Contains(desc, <<"b", "a", "s", "e", " ", "f", "a", "b", "r", "i", "c">>)
    \/ Contains(desc, <<"e", "n", "c", "h", "i", "m", "e", "n", "t", "o">>)
    \/ Contains(desc, <<"t", "e", "c", "i", "d", "o", " ", "b", "a", "s", "e">>)

\* line 103
IsNonPrincipal(desc) ==
    LET d == Lower(desc) IN
    \/ Contains(d, <<"f", "i", "l", "l", "e", "r">>)
    \/ Contains(d, <<"b", "a", "s", "e", " ", "f", "a", "b", "r", "i", "c">>)
    \/ Contains(d, <<"e", "n", "c", "h", "i", "m", "e", "n", "t", "o">>)
    \/ Contains(d, <<"t", "e", "c", "i", "d", "o", " ", "b", "a", "s", "e">>)

\* lines 100-105
MainComponents(components) ==
    SelectSeq(components, LAMBDA c : ~IsNonPrincipal(c.desc))

\* the percentages on their common denominator: p = Numerators[i] / Denominator
Denominator(cs) == Max({c.pct.d : c \in {cs[i] : i \in 1..Len(cs)}} \cup {1})

Numerators(cs) == [i \in 1..Len(cs) |-> cs[i].pct.n * (Denominator(cs) \div cs[i].pct.d)]

\* line 114
Floats(cs) ==
    LET a == Numerators(cs) IN
    [i \in 1..Len(cs) |-> FloatQuotient(100 * a[i], Sum(a))]

\* sorted(range(len(fracs)), key=lambda i: fracs[i], reverse=True): the sort is
\* stable, and with reverse=True equal keys keep their original order
ComesBeforeDescending(fracs, i, j) ==
    FracLess(fracs[j], fracs[i]) \/ (FracEqual(fracs[i], fracs[j]) /\ i < j)

\* sorted(range(len(fracs)), key=lambda i: fracs[i])
ComesBeforeAscending(fracs, i, j) ==
    FracLess(fracs[i], fracs[j]) \/ (FracEqual(fracs[i], fracs[j]) /\ i < j)

\* lines 115-126 without the distribution of the remainder: the floors alone
ApportionFloorsOnly(floats) == [i \in 1..Len(floats) |-> floats[i].int]

\* lines 115-126
Apportion(floats) ==
    LET n     == Len(floats)
        ints  == [i \in 1..n |-> floats[i].int]
        fracs == [i \in 1..n |-> floats[i].frac]
        diff  == 100 - Sum(ints)
        rankD(i) == Cardinality({j \in 1..n : ComesBeforeDescending(fracs, j, i)})
        rankA(i) == Cardinality({j \in 1..n : ComesBeforeAscending(fracs, j, i)})
    IN  IF diff > 0
        THEN [i \in 1..n |-> IF rankD(i) < diff THEN ints[i] + 1 ELSE ints[i]]
        ELSE IF diff < 0
        THEN [i \in 1..n |-> IF rankA(i) < -diff THEN ints[i] - 1 ELSE ints[i]]
        ELSE ints

RECURSIVE NatText(_)
NatText(n) == IF n < 10 THEN <<Digits[n + 1]>> ELSE NatText(n \div 10) \o <<Digits[(n % 10) + 1]>>

\* f"{pct_int}"
IntText(n) == IF n < 0 THEN <<"-">> \o NatText(-n) ELSE NatText(n)

\* lines 128-133
Assemble(main, ints) ==
    JoinWith([i \in 1..Len(main) |->
                 IntText(ints[i]) \o <<"%", " ">> \o basic_translate_freeform(main[i].desc)],
             <<" ">>)

(***************************************************************************)
(* The Composition Normalizer run on composition texts: up to              *)
(* MaxComponents pieces, each an amount, a material and what separates it  *)
(* from the next piece.                                                    *)
(***************************************************************************)
MaxComponents == 3

Pieces == {
    <<"5", "0", "%", " ", "C", "o", "t", "t", "o", "n", " ">>, <<"1", "0", "%", " ", "F", "i", "l", "l", "e", "r", " ">>, <<"4", "0", "%", " ", "P", "U">>, <<"1", "%", " ", "N", "y", "l", "o", "n", "\n">>, <<"4", " ", "%", "L", "e", "a", "t", "h", "e", "r", " ">>,
    <<"0", "%", " ", "M", "e", "t", "a", "l", " ">>, <<"2", ".", "5", "%", " ", "T", "E", "C", "I", "D", "O", " ", "B", "A", "S", "E", " ">>, <<"5", "0", "%", " ", "C", "o", "t", "t", "o", "n", ",", " ">>, <<"S", "i", "l", "k", " ">> }

RECURSIVE Concat(_)
Concat(parts) == IF parts = <<>> THEN <<>> ELSE parts[1] \o Concat(Tail(parts))

CompositionTexts == {Concat(ps) : ps \in SeqsUpTo(Pieces, MaxComponents)}

NormalizeInit ==
    /\ normalize \in {[pc |-> "start", text |-> t, components |-> <<>>,
                       main_components |-> <<>>, total |-> [n |-> 0, d |-> 1],
                       int_parts |-> <<>>, result |-> <<>>, ret |-> "none"] :
                        t \in CompositionTexts}
    /\ translate = Idle
    /\ wrap = Idle
    /\ render = Idle

\* line 111 off by one: total <= 1
TotalIsAtMostOne(total) == total.n <= total.d

\* line 111: total <= 0
TotalIsNotPositive(total) == total.n <= 0

\* lines 93-94: if not text: return ""
NormalizeEmpty ==
    /\ normalize.pc = "start"
    /\ normalize.text = <<>>
    /\ normalize' = [normalize EXCEPT !.pc = "done", !.ret = "empty", !.result = <<>>]
    /\ UNCHANGED <<translate, wrap, render>>

\* line 96
NormalizeParse ==
    /\ normalize.pc = "start"
    /\ normalize.text /= <<>>
    /\ normalize' = [normalize EXCEPT
                        !.pc = "parsed",
                        !.components = parse_components_for_normalization(normalize.text)]
    /\ UNCHANGED <<translate, wrap, render>>

\* lines 97-98
ReturnNoComponents ==
    /\ normalize.pc = "parsed"
    /\ normalize.components = <<>>
    /\ normalize' = [normalize EXCEPT
                        !.pc = "done", !.ret = "no_components",
                        !.result = basic_translate_freeform(normalize.text)]
    /\ UNCHANGED <<translate, wrap, render>>

\* lines 100-105
NormalizeFilter ==
    /\ normalize.pc = "parsed"
    /\ normalize.components /= <<>>
    /\ normalize' = [normalize EXCEPT
                        !.pc = "filtered",
                        !.main_components = MainComponents(normalize.components)]
    /\ UNCHANGED <<translate, wrap, render>>

\* lines 107-108
ReturnNoMain ==
    /\ normalize.pc = "filtered"
    /\ normalize.main_components = <<>>
    /\ normalize' = [normalize EXCEPT
                        !.pc = "done", !.ret = "no_main",
                        !.result = basic_translate_freeform(normalize.text)]
    /\ UNCHANGED <<translate, wrap, render>>

\* line 110
NormalizeTotal ==
    /\ normalize.pc = "filtered"
    /\ normalize.main_components /= <<>>
    /\ normalize' = [normalize EXCEPT
                        !.pc = "summed",
                        !.total = [n |-> Sum(Numerators(normalize.main_components)),
                                   d |-> Denominator(normalize.main_components)]]
    /\ UNCHANGED <<translate, wrap, render>>

\* lines 111-112
ReturnNotPositive ==
    /\ normalize.pc = "summed"
    /\ TotalIsNotPositive(normalize.total)
    /\ normalize' = [normalize EXCEPT
                        !.pc = "done", !.ret = "not_positive",
                        !.result = basic_translate_freeform(normalize.text)]
    /\ UNCHANGED <<translate, wrap, render>>

\* lines 114-126
NormalizeApportion ==
    /\ normalize.pc = "summed"
    /\ ~TotalIsNotPositive(normalize.total)
    /\ normalize' = [normalize EXCEPT
                        !.pc = "apportioned",
                        !.int_parts = Apportion(Floats(normalize.main_components))]
    /\ UNCHANGED <<translate, wrap, render>>

\* lines 128-133
NormalizeAssemble ==
    /\ normalize.pc = "apportioned"
    /\ normalize' = [normalize EXCEPT
                        !.pc = "done", !.ret = "normalized",
                        !.result = Assemble(normalize.main_components, normalize.int_parts)]
    /\ UNCHANGED <<translate, wrap, render>>

NormalizeNext ==
    \/ NormalizeEmpty \/ NormalizeParse \/ ReturnNoComponents \/ NormalizeFilter
    \/ ReturnNoMain \/ NormalizeTotal \/ ReturnNotPositive \/ NormalizeApportion
    \/ NormalizeAssemble

SpecNormalize == NormalizeInit /\ [][NormalizeNext]_vars

(***************************************************************************)
(* What the claims about the Normalizer speak of, stated apart from the    *)
(* operators above.                                                        *)
(***************************************************************************)
RECURSIVE SortedSeq(_)
SortedSeq(S) == IF S = {} THEN <<>> ELSE <<Min(S)>> \o SortedSeq(S \ {Min(S)})

\* the digit runs of a text, by their first positions
NumberStarts(t) == {i \in 1..Len(t) : IsDigit(t[i]) /\ (i = 1 \/ ~IsDigit(t[i - 1]))}

\* the percentages a text shows: the numbers written right before a percent sign
WrittenPercentages(t) ==
    LET starts == SortedSeq({i \in NumberStarts(t) :
                                SkipDigits(t, i) <= Len(t) /\ t[SkipDigits(t, i)] = "%"})
    IN  [k \in 1..Len(starts) |->
            DigitsValue(SubSeq(t, starts[k], SkipDigits(t, starts[k]) - 1), 0)]

\* every number of the text is a plain non-negative integer percentage: no
\* sign or decimal point before it, the percent sign right behind it
OnlyWholePercentages(t) ==
    \A i \in NumberStarts(t) :
        /\ SkipDigits(t, i) <= Len(t) /\ t[SkipDigits(t, i)] = "%"
        /\ i > 1 => t[i - 1] \notin {"-", "."}

(***************************************************************************)
(* C1: when at least one non-filler component is retained and the         *)
(* retained percentages have a positive total, the percentages written in  *)
(* the output are non-negative integers, one per retained component, and   *)
(* sum to exactly 100.                                                     *)
(***************************************************************************)
C1_PercentagesSumTo100 ==
    (normalize.pc = "done" /\ normalize.ret = "normalized") =>
        /\ OnlyWholePercentages(normalize.result)
        /\ Len(WrittenPercentages(normalize.result)) = Len(normalize.main_components)
        /\ Sum(WrittenPercentages(normalize.result)) = 100

\* three retained components, the floors of whose shares fall short of 100
C1_Witness ==
    /\ normalize.pc = "done" /\ normalize.ret = "normalized"
    /\ Len(normalize.main_components) = 3
    /\ Sum([i \in 1..3 |-> (100 * Numerators(normalize.main_components)[i])
                              \div Sum(Numerators(normalize.main_components))]) < 100

(***************************************************************************)
(* C2: components that name a non-principal category (filler, base fabric, *)
(* enchimento, tecido base, in any letter case) are left out of the output *)
(* and of the total; the retained ones appear in input order, one          *)
(* "<integer>% <MATERIAL>" token each.                                     *)
(***************************************************************************)
NonPrincipalNames == { <<"f", "i", "l", "l", "e", "r">>, <<"b", "a", "s", "e", " ", "f", "a", "b", "r", "i", "c">>, <<"e", "n", "c", "h", "i", "m", "e", "n", "t", "o">>, <<"t", "e", "c", "i", "d", "o", " ", "b", "a", "s", "e">> }

NamesNonPrincipal(desc) == \E name \in NonPrincipalNames : Contains(Lower(desc), name)

Retained(components) == SelectSeq(components, LAMBDA c : ~NamesNonPrincipal(c.desc))

NonPrincipalLeftOut ==
    \A i \in 1..Len(normalize.components) :
        NamesNonPrincipal(normalize.components[i].desc) =>
            ~Contains(normalize.result,
                      basic_translate_freeform(normalize.components[i].desc))

RetainedInOrder ==
    LET kept == Retained(normalize.components) IN
    /\ normalize.total = [n |-> Sum(Numerators(kept)), d |-> Denominator(kept)]
    /\ Len(normalize.int_parts) = Len(kept)
    /\ normalize.result =
          JoinWith([i \in 1..Len(kept) |->
                       IntText(normalize.int_parts[i]) \o <<"%", " ">>
                           \o basic_translate_freeform(kept[i].desc)], <<" ">>)

FillerExample ==
    normalize.text = <<"5", "0", "%", " ", "C", "o", "t", "t", "o", "n", " ", "1", "0", "%", " ", "F", "i", "l", "l", "e", "r", " ", "4", "0", "%", " ", "P", "U">> =>
        normalize.result = <<"5", "6", "%", " ", "A", "L", "G", "O", "D", "Ã", "O", " ", "4", "4", "%", " ", "P", "O", "L", "I", "U", "R", "E", "T", "A", "N", "O", " ", "(", "P", "U", ")">>

\* C2 as claimed, on every path: a component that names a non-principal
\* category never shows in the output
C2_AsClaimed == normalize.pc = "done" => NonPrincipalLeftOut

\* C2 amended: on the path that rescales (some component is retained and the
\* retained total is positive) the non-principal components are left out of
\* the output and of the total, and the retained ones appear in input order,
\* one "<integer>% <MATERIAL>" token each
C2_FillersLeftOutWhenRescaled ==
    (normalize.pc = "done" /\ normalize.ret = "normalized") =>
        NonPrincipalLeftOut /\ RetainedInOrder /\ FillerExample

\* the example of the claim: the filler between two retained components is dropped
C2_Witness ==
    /\ normalize.pc = "done" /\ normalize.ret = "normalized"
    /\ normalize.text = <<"5", "0", "%", " ", "C", "o", "t", "t", "o", "n", " ", "1", "0", "%", " ", "F", "i", "l", "l", "e", "r", " ", "4", "0", "%", " ", "P", "U">>
    /\ Len(normalize.components) = 3
    /\ Len(normalize.main_components) = 2

(***************************************************************************)
(* C8: the raw text is translated verbatim, with no rescaling, exactly     *)
(* when the parser produced no components, filtering removed them all, or  *)
(* the retained total is not positive; a text is returned in every case.   *)
(***************************************************************************)
IsText(t) == DOMAIN t = 1..Len(t)

FallbackCase ==
    LET kept == Retained(normalize.components) IN
    \/ normalize.components = <<>>
    \/ kept = <<>>
    \/ Sum(Numerators(kept)) <= 0

C8_FallbackExactly ==
    normalize.pc = "done" =>
        /\ IsText(normalize.result)
        /\ FallbackCase <=> normalize.ret # "normalized"
        /\ FallbackCase =>
              /\ normalize.result = basic_translate_freeform(normalize.text)
              /\ normalize.int_parts = <<>>

\* a component is retained, a filler is dropped, and the retained total is zero
C8_Witness ==
    /\ normalize.pc = "done" /\ normalize.ret = "not_positive"
    /\ Len(normalize.main_components) >= 1
    /\ Len(normalize.components) > Len(normalize.main_components)
    /\ normalize.result = basic_translate_freeform(normalize.text)

(***************************************************************************)
(* C9: the parser yields one component per percentage token of the text,   *)
(* in order, its description the text from the token to the next token or  *)
(* the end, whatever lies between the components.                          *)
(***************************************************************************)
\* a number that is not the tail of a longer number and is followed by "%"
PercentTokens(t) ==
    {i \in NumberStarts(t) :
        /\ ~(i > 2 /\ t[i - 1] = "." /\ IsDigit(t[i - 2]))
        /\ PercentNumberEnd(t, i) > 0}

ComponentPerToken(text) ==
    LET t      == ReplaceNewlines(text)
        starts == SortedSeq(PercentTokens(t))
        next(k) == IF k < Len(starts) THEN starts[k + 1] ELSE Len(t) + 1
    IN  [k \in 1..Len(starts) |->
            [pct  |-> ParseNumber(SubSeq(t, starts[k], NumberEnd(t, starts[k]) - 1)),
             desc |-> Strip(SubSeq(t, SkipSpaces(t, NumberEnd(t, starts[k])) + 1,
                                   next(k) - 1))]]

C9_OneComponentPerToken ==
    normalize.pc \notin {"start", "idle"} /\ normalize.ret # "empty" =>
        normalize.components = ComponentPerToken(normalize.text)

(***************************************************************************)
(* C10: the integer percentages are the largest-remainder apportionment of *)
(* the retained percentages: the floor of each exact share, plus one unit  *)
(* for the (100 - sum of floors) components with the largest remainders,   *)
(* equal remainders going to the component that comes first.               *)
(***************************************************************************)
LargestRemainder(cs) ==
    LET a     == Numerators(cs)
        T     == Sum(a)
        floor(i) == (100 * a[i]) \div T
        rem(i)   == (100 * a[i]) % T
        extra == 100 - Sum([i \in 1..Len(cs) |-> floor(i)])
        ahead(i) == {j \in 1..Len(cs) : rem(j) > rem(i) \/ (rem(j) = rem(i) /\ j < i)}
    IN  [i \in 1..Len(cs) |->
            IF Cardinality(ahead(i)) < extra THEN floor(i) + 1 ELSE floor(i)]

C10_LargestRemainder ==
    (normalize.pc = "done" /\ normalize.ret = "normalized") =>
        normalize.int_parts = LargestRemainder(normalize.main_components)

(***************************************************************************)
(* Lengths.  The page is laid out in points (reportlab's unit), with       *)
(* 1 mm = 72/25.4 points.  The model counts lengths in units of 1/720 mm,  *)
(* in which the millimetre and the point are both whole numbers; a length  *)
(* the program gets by a float division is rounded down to this unit.      *)
(***************************************************************************)
mm == 720

point == 254

(***************************************************************************)
(* The geometry of create_carelabel_pdf.                                   *)
(***************************************************************************)
width == 30 * mm

height == 80 * mm

inner_margin_x == 3 * mm

stitch_margin_mm == 7

safe_top_y == height - stitch_margin_mm * mm

safe_bottom_y == stitch_margin_mm * mm

top_band_mm == 10

icons_band_mm == 6

max_text_width == width - 2 * inner_margin_x

\* The glyph widths of the font, in 1/1000 of the font size (Helvetica's
\* metrics for the characters the model's texts are made of)
GlyphWidth(c) ==
    CASE c = " " -> 278
      [] c = "i" -> 222
      [] c = "W" -> 944
      [] OTHER   -> 556

RECURSIVE GlyphSum(_, _, _)
GlyphSum(t, i, acc) ==
    IF i > Len(t) THEN acc ELSE GlyphSum(t, i + 1, acc + GlyphWidth(t[i]))

\* stringWidth(t, font_name, font_size) <= max_width, the width being
\* GlyphSum * font_size / 1000 points
StringFits(t, max_width, font_size) ==
    GlyphSum(t, 1, 0) * font_size * point <= max_width * 1000

(***************************************************************************)
(* wrap_line                                                               *)
(***************************************************************************)
\* str.split(): the maximal runs of characters that are not whitespace
Split(t) ==
    LET starts == SortedSeq({i \in 1..Len(t) :
                                ~IsSpace(t[i]) /\ (i = 1 \/ IsSpace(t[i - 1]))})
        stop(i) == Min({j \in i..Len(t) : IsSpace(t[j])} \cup {Len(t) + 1})
    IN  [k \in 1..Len(starts) |-> SubSeq(t, starts[k], stop(starts[k]) - 1)]

\* lines 172-181 with the width of the new word measured in place of the
\* candidate line's
WrapWordMeasuringWordOnly(acc, w, max_width, font_size) ==
    IF acc.current = <<>> THEN [acc EXCEPT !.current = w]
    ELSE IF StringFits(w, max_width, font_size)
         THEN [acc EXCEPT !.current = acc.current \o <<" ">> \o w]
         ELSE [lines |-> Append(acc.lines, acc.current), current |-> w]

\* lines 172-181: one iteration of the loop over the words
WrapWord(acc, w, max_width, font_size) ==
    IF acc.current = <<>> THEN [acc EXCEPT !.current = w]
    ELSE LET candidate == acc.current \o <<" ">> \o w IN
         IF StringFits(candidate, max_width, font_size)
         THEN [acc EXCEPT !.current = candidate]
         ELSE [lines |-> Append(acc.lines, acc.current), current |-> w]

\* lines 183-186
WrapFinish(acc) ==
    IF acc.current # <<>> THEN Append(acc.lines, acc.current) ELSE acc.lines

RECURSIVE WrapWords(_, _, _, _, _)
WrapWords(words, k, acc, max_width, font_size) ==
    IF k > Len(words) THEN acc
    ELSE WrapWords(words, k + 1, WrapWord(acc, words[k], max_width, font_size),
                   max_width, font_size)

wrap_line(text, max_width, font_size) ==
    IF text = <<>> THEN << <<>> >>
    ELSE WrapFinish(WrapWords(Split(text), 1, [lines |-> <<>>, current |-> <<>>],
                              max_width, font_size))

(***************************************************************************)
(* The wrapper run on its own, one word per step, on every line of up to   *)
(* MaxLineLength characters.                                               *)
(***************************************************************************)
MaxLineLength == 6

font_size == 4

leading == 5

LineTexts == SeqsUpTo({"i", "W", " "}, MaxLineLength)

\* the widths the lines are wrapped to; the last is that of the carelabel
MaxWidths == {0, 3 * point, 6 * point, max_text_width}

WrapInit ==
    /\ wrap \in {[pc |-> "start", text |-> t, max_width |-> w, words |-> <<>>,
                  k |-> 0, current |-> <<>>, lines |-> <<>>] :
                    t \in LineTexts, w \in MaxWidths}
    /\ translate = Idle
    /\ normalize = Idle
    /\ render = Idle

\* lines 165-166
WrapEmpty ==
    /\ wrap.pc = "start"
    /\ wrap.text = <<>>
    /\ wrap' = [wrap EXCEPT !.pc = "done", !.lines = << <<>> >>]
    /\ UNCHANGED <<translate, normalize, render>>

\* lines 168-170
WrapSplit ==
    /\ wrap.pc = "start"
    /\ wrap.text # <<>>
    /\ wrap' = [wrap EXCEPT !.pc = "words", !.words = Split(wrap.text), !.k = 1]
    /\ UNCHANGED <<translate, normalize, render>>

\* lines 172-181
WrapLoop ==
    /\ wrap.pc = "words"
    /\ wrap.k <= Len(wrap.words)
    /\ LET acc == WrapWord([lines |-> wrap.lines, current |-> wrap.current],
                           wrap.words[wrap.k], wrap.max_width, font_size)
       IN  wrap' = [wrap EXCEPT !.lines = acc.lines, !.current = acc.current,
                                !.k = wrap.k + 1]
    /\ UNCHANGED <<translate, normalize, render>>

\* lines 183-186
WrapReturn ==
    /\ wrap.pc = "words"
    /\ wrap.k > Len(wrap.words)
    /\ wrap' = [wrap EXCEPT
                   !.pc = "done",
                   !.lines = WrapFinish([lines |-> wrap.lines, current |-> wrap.current])]
    /\ UNCHANGED <<translate, normalize, render>>

WrapNext == WrapEmpty \/ WrapSplit \/ WrapLoop \/ WrapReturn

SpecWrap == WrapInit /\ [][WrapNext]_vars

(***************************************************************************)
(* C5: every sub-line of more than one word is no wider than the maximum   *)
(* width; the words of the sub-lines, read in order, are the words of the  *)
(* line; the empty line gives exactly one empty sub-line.                  *)
(***************************************************************************)
WordsOf(lines) == Concat([i \in 1..Len(lines) |-> Split(lines[i])])

C5_WrapLine ==
    wrap.pc = "done" =>
        /\ \A i \in 1..Len(wrap.lines) :
              Len(Split(wrap.lines[i])) > 1 =>
                  StringFits(wrap.lines[i], wrap.max_width, font_size)
        /\ WordsOf(wrap.lines) = Split(wrap.text)
        /\ wrap.text = <<>> => wrap.lines = << <<>> >>

\* a line wrapped into a sub-line of two words and a single word too wide
C5_Witness ==
    /\ wrap.pc = "done"
    /\ Len(wrap.lines) >= 2
    /\ \E i \in 1..Len(wrap.lines) : Len(Split(wrap.lines[i])) > 1
    /\ \E i \in 1..Len(wrap.lines) :
          ~StringFits(wrap.lines[i], wrap.max_width, font_size)

(***************************************************************************)
(* create_carelabel_pdf.  An image is its size in pixels, <<iw, ih>>, or   *)
(* Absent when the file does not exist.                                    *)
(***************************************************************************)
Absent == <<>>

\* lines 219-221 and 255-257: the image scaled into max_w x max_h
FitImage(iw, ih, max_w, max_h) ==
    IF max_w * ih <= max_h * iw
    THEN [w |-> max_w, h |-> (max_w * ih) \div iw]
    ELSE [w |-> (max_h * iw) \div ih, h |-> max_h]

\* lines 223-229: the Reserva logo is drawn half as large again, within the width
Magnify(brand, size, logo_max_width) ==
    IF brand # "Reserva" THEN size
    ELSE LET w == (3 * size.w) \div 2
             h == (3 * size.h) \div 2
         IN  IF w > logo_max_width
             THEN [w |-> logo_max_width, h |-> (h * logo_max_width) \div w]
             ELSE [w |-> w, h |-> h]

\* lines 209-246 with the gap under the logo added where it is subtracted
LogoBandGapReversed(brand, logo) ==
    IF logo = Absent
    THEN [drawn |-> FALSE, text_top_limit |-> safe_top_y - top_band_mm * mm]
    ELSE LET logo_max_height == (top_band_mm - 2) * mm
             logo_max_width  == width - 2 * inner_margin_x
             size   == Magnify(brand,
                               FitImage(logo[1], logo[2], logo_max_width, logo_max_height),
                               logo_max_width)
             y_logo == safe_top_y - 1 * mm - size.h
         IN  [drawn |-> TRUE, x |-> (width - size.w) \div 2, y |-> y_logo,
              w |-> size.w, h |-> size.h, text_top_limit |-> y_logo + 2 * mm]

\* lines 209-246: the logo's rectangle and the top of the text band
LogoBand(brand, logo) ==
    IF logo = Absent
    THEN [drawn |-> FALSE, text_top_limit |-> safe_top_y - top_band_mm * mm]
    ELSE LET logo_max_height == (top_band_mm - 2) * mm
             logo_max_width  == width - 2 * inner_margin_x
             size   == Magnify(brand,
                               FitImage(logo[1], logo[2], logo_max_width, logo_max_height),
                               logo_max_width)
             y_logo == safe_top_y - 1 * mm - size.h
         IN  [drawn |-> TRUE, x |-> (width - size.w) \div 2, y |-> y_logo,
              w |-> size.w, h |-> size.h, text_top_limit |-> y_logo - 2 * mm]

\* lines 249-274: the icon strip's rectangle and the bottom of the text band
IconBand(icons) ==
    IF icons = Absent
    THEN [drawn |-> FALSE, text_bottom_limit |-> safe_bottom_y + icons_band_mm * mm]
    ELSE LET icons_max_height == (icons_band_mm - 2) * mm
             icons_max_width  == width - 2 * inner_margin_x
             size    == FitImage(icons[1], icons[2], icons_max_width, icons_max_height)
             y_icons == safe_bottom_y + 1 * mm
         IN  [drawn |-> TRUE, x |-> (width - size.w) \div 2, y |-> y_icons,
              w |-> size.w, h |-> size.h,
              text_bottom_limit |-> y_icons + size.h + 2 * mm]

\* str.splitlines(), for "\n" line ends
SplitLines(t) ==
    LET breaks == SortedSeq({i \in 1..Len(t) : t[i] = "\n"} \cup {Len(t) + 1})
        from(k) == IF k = 1 THEN 1 ELSE breaks[k - 1] + 1
        all     == [k \in 1..Len(breaks) |-> SubSeq(t, from(k), breaks[k] - 1)]
    IN  IF all[Len(all)] = <<>> THEN SubSeq(all, 1, Len(all) - 1) ELSE all

\* lines 281-286
WrapText(full_text) ==
    LET ls == SplitLines(full_text) IN
    Concat([i \in 1..Len(ls) |->
               IF Strip(ls[i]) = <<>> THEN << <<>> >>
               ELSE wrap_line(ls[i], max_text_width, font_size)])

\* lines 288-301
StartY(wrapped_lines, text_top_limit, text_bottom_limit) ==
    LET n_lines == IF wrapped_lines # <<>> THEN Len(wrapped_lines) ELSE 1
        text_height == Max({n_lines - 1, 0}) * leading * point
        available_height == text_top_limit - text_bottom_limit
    IN  IF available_height <= 0 THEN text_top_limit
        ELSE IF text_height >= available_height THEN text_top_limit
        ELSE text_top_limit - (available_height - text_height) \div 2

\* line 309 with the bottom of the page in place of the bottom of the band
BelowPage(y, text_bottom_limit) == y <= 0

\* line 309: if text_obj.getY() <= text_bottom_limit
AtLimit(y, text_bottom_limit) == y <= text_bottom_limit

(***************************************************************************)
(* The rendering of a carelabel: every brand, logo and icon images of the  *)
(* sizes below or absent, and texts of up to MaxTextLines equal lines.     *)
(***************************************************************************)
MaxTextLines == 36

Brands == {"Arezzo", "Anacapri", "Schutz", "Reserva"}

\* a wide, a square and a tall image
LogoImages == {Absent, <<6, 1>>, <<1, 1>>, <<1, 3>>}

IconImages == {Absent, <<12, 1>>, <<2, 1>>}

SampleLines == { <<"i">>, <<"i", " ", " ">>, <<"W", "W", "W", "W", "W", "W", "W", "W", "W", " ", "W", "W", "W", "W", "W", "W", "W", "W", "W">> }

LineCounts == {0, 1, 3, 24, MaxTextLines}

Repeat(line, n) == JoinWith([i \in 1..n |-> line], <<"\n">>)

Blank == <<" ">>

FullTexts ==
    {Repeat(line, n) : line \in SampleLines, n \in LineCounts}
        \cup {Repeat(Blank, 3) \o JoinWith(<< <<"W", " ", "i">>, <<>>, <<"i">> >>, <<"\n">>) \o <<"\n">>}

RenderInit ==
    /\ render \in {[pc |-> "logo", brand |-> b, logo |-> l, icons |-> i, full_text |-> t,
                    logo_band |-> [drawn |-> FALSE], icon_band |-> [drawn |-> FALSE],
                    text_top_limit |-> 0, text_bottom_limit |-> 0,
                    wrapped_lines |-> <<>>, y_start |-> 0, y |-> 0, k |-> 0,
                    placed |-> <<>>] :
                      b \in Brands, l \in LogoImages, i \in IconImages, t \in FullTexts}
    /\ translate = Idle
    /\ normalize = Idle
    /\ wrap = Idle

\* lines 209-246
RenderLogo ==
    /\ render.pc = "logo"
    /\ LET band == LogoBand(render.brand, render.logo) IN
       render' = [render EXCEPT !.pc = "icons", !.logo_band = band,
                                !.text_top_limit = band.text_top_limit]
    /\ UNCHANGED <<translate, normalize, wrap>>

\* lines 249-274
RenderIcons ==
    /\ render.pc = "icons"
    /\ LET band == IconBand(render.icons) IN
       render' = [render EXCEPT !.pc = "wrap", !.icon_band = band,
                                !.text_bottom_limit = band.text_bottom_limit]
    /\ UNCHANGED <<translate, normalize, wrap>>

\* lines 277-306
RenderWrap ==
    /\ render.pc = "wrap"
    /\ LET lines == WrapText(render.full_text)
           y0    == StartY(lines, render.text_top_limit, render.text_bottom_limit)
       IN  render' = [render EXCEPT !.pc = "text", !.wrapped_lines = lines,
                                    !.y_start = y0, !.y = y0, !.k = 1]
    /\ UNCHANGED <<translate, normalize, wrap>>

\* lines 308-311: the line is placed at the cursor, which moves down by the leading
RenderLine ==
    /\ render.pc = "text"
    /\ render.k <= Len(render.wrapped_lines)
    /\ ~AtLimit(render.y, render.text_bottom_limit)
    /\ render' = [render EXCEPT
                     !.placed = Append(render.placed,
                                       [line |-> render.wrapped_lines[render.k],
                                        y |-> render.y]),
                     !.y = render.y - leading * point,
                     !.k = render.k + 1]
    /\ UNCHANGED <<translate, normalize, wrap>>

\* lines 309-310: break
RenderBreak ==
    /\ render.pc = "text"
    /\ render.k <= Len(render.wrapped_lines)
    /\ AtLimit(render.y, render.text_bottom_limit)
    /\ render' = [render EXCEPT !.pc = "done"]
    /\ UNCHANGED <<translate, normalize, wrap>>

\* lines 313-320: the loop ran out of lines
RenderFinish ==
    /\ render.pc = "text"
    /\ render.k > Len(render.wrapped_lines)
    /\ render' = [render EXCEPT !.pc = "done"]
    /\ UNCHANGED <<translate, normalize, wrap>>

RenderNext ==
    RenderLogo \/ RenderIcons \/ RenderWrap \/ RenderLine \/ RenderBreak \/ RenderFinish

SpecRender == RenderInit /\ [][RenderNext]_vars

(***************************************************************************)
(* The layout claims.                                                      *)
(***************************************************************************)
BandsComputed == render.pc \in {"wrap", "text", "done"}

C7_TruncatesAtLimit ==
    render.pc \in {"text", "done"} =>
        /\ Len(render.placed) <= Len(render.wrapped_lines)
        /\ \A i \in 1..Len(render.placed) :
              /\ render.placed[i].line = render.wrapped_lines[i]
              /\ render.placed[i].y = render.y_start - (i - 1) * leading * point
              /\ render.placed[i].y > render.text_bottom_limit
        /\ render.pc = "done" =>
              \/ Len(render.placed) = Len(render.wrapped_lines)
              \/ render.y_start - Len(render.placed) * leading * point
                     <= render.text_bottom_limit

C7_Witness ==
    /\ render.pc = "done"
    /\ 0 < Len(render.placed)
    /\ Len(render.placed) < Len(render.wrapped_lines)

=============================================================================
